---- MODULE Spec2Model ----
(***************************************************************************)
(* The two-stage dataset pipeline of generate_dataset.py (stage 1, the     *)
(* generator) and generate_sketches.py (stage 2, the sketch stage).        *)
(*                                                                         *)
(* The only state the stages share is the filesystem.  A file is absent,   *)
(* present but not decodable ("junk"), or a decodable image of the         *)
(* configured resolution.  A beauty image is identified by the edge map    *)
(* OpenCV's Canny computes from its blurred grayscale, an AO image by its  *)
(* 8-bit gray levels.  Every write stamps the file with the number of the  *)
(* run that wrote it ("by"; 0 for a file that was there before the first   *)
(* run), so that an overwrite with equal pixels is still a change.         *)
(* Exceptions raised inside the libraries are outside the model.           *)
(***************************************************************************)
EXTENDS Integers, Sequences, FiniteSets, TLC

\* ------------------------------------------------------------- bounds
\* The largest NUM_SAMPLES a run is started with, and the number of frame
\* indices the dataset directory may hold.
MaxSamples ==
    2
\* Script invocations (generator or sketch stage) in one behaviour.
MaxRuns ==
    2
\* Pixels of an image.
NPix ==
    1

\* ------------------------------------------------------------- program constants
\* film width and height
RES ==
    512
\* f"{i:04d}"
PAD_WIDTH ==
    4
\* NUM_SAMPLES as the source sets it
FULL_RUN ==
    1000
\* AO_WEIGHT = 0.6, as the fraction AO_WEIGHT_NUM / AO_WEIGHT_DEN
AO_WEIGHT_NUM ==
    6
AO_WEIGHT_DEN ==
    10
\* the white of an 8-bit image
WHITE ==
    255

\* ------------------------------------------------------------- strings
\* A string is a sequence of atoms: a directory ("renders/"), a prefix
\* ("render_"), a decimal digit, or the extension (".png").
DigitChars ==
    <<"0", "1", "2", "3", "4", "5", "6", "7", "8", "9">>

RECURSIVE Digits(_)
\* str(i) for i >= 0
Digits(i) ==
    IF i < 10 THEN <<DigitChars[i + 1]>>
    ELSE Digits(i \div 10) \o <<DigitChars[(i % 10) + 1]>>

RECURSIVE ZeroPad(_, _)
\* the zero fill of the format spec 04d: pad on the left up to the width
ZeroPad(s, w) ==
    IF Len(s) >= w THEN s ELSE ZeroPad(<<"0">> \o s, w)

\* f"{i:04d}"
FrameStr(i) ==
    ZeroPad(Digits(i), PAD_WIDTH)

RECURSIVE Replace(_, _)
\* s.replace(a, ""): every occurrence of atom a removed
Replace(s, a) ==
    IF s = <<>> THEN <<>>
    ELSE IF Head(s) = a THEN Replace(Tail(s), a)
    ELSE <<Head(s)>> \o Replace(Tail(s), a)

Dirs ==
    {"renders/", "ao/", "conditioning/"}

RECURSIVE Basename(_)
\* os.path.basename: what follows the last directory separator
Basename(p) ==
    IF \E k \in 1..Len(p) : p[k] \in Dirs THEN Basename(Tail(p)) ELSE p

\* os.path.join(RENDERS_DIR, f"render_{frame_str}.png"), relative to dataset/
RenderPath(frame_str) ==
    <<"renders/", "render_">> \o frame_str \o <<".png">>

\* os.path.join(AO_DIR, f"ao_{frame_str}.png")
AoPath(frame_str) ==
    <<"ao/", "ao_">> \o frame_str \o <<".png">>

\* os.path.join(CONDITION_DIR, f"conditioning_{frame_str}.png")
CondPath(frame_str) ==
    <<"conditioning/", "conditioning_">> \o frame_str \o <<".png">>

\* SketchFrameStr with the prefix left in
SketchFrameStr_KeepsPrefix(render_path) ==
    Replace(Basename(render_path), ".png")

\* frame_str = basename.replace("render_", "").replace(".png", "")
SketchFrameStr(render_path) ==
    Replace(Replace(Basename(render_path), "render_"), ".png")

\* ------------------------------------------------------------- files
Indices ==
    0..(MaxSamples - 1)

Paths ==
    {RenderPath(FrameStr(j)) : j \in Indices}
        \cup {AoPath(FrameStr(j)) : j \in Indices}
        \cup {CondPath(FrameStr(j)) : j \in Indices}

Absent ==
    [kind |-> "absent", res |-> 0, px |-> <<>>, by |-> 0]

Junk ==
    [kind |-> "junk", res |-> 0, px |-> <<>>, by |-> 0]

\* what cv2.imwrite leaves at a path
Img(px, by) ==
    [kind |-> "img", res |-> RES, px |-> px, by |-> by]

\* Canny output: 0 or 255 per pixel
EdgeMaps ==
    [1..NPix -> {0, WHITE}]

\* gray levels an AO image is drawn from
AoLevels ==
    {0, 252}

AoMaps ==
    [1..NPix -> AoLevels]

\* os.path.exists
Exists(f, p) ==
    p \in DOMAIN f /\ f[p].kind # "absent"

\* cv2.imread returns an array (not None)
Loads(f, p) ==
    p \in DOMAIN f /\ f[p].kind = "img"

\* the filesystem after a write of content c to path p
Write(f, p, c) ==
    [q \in (DOMAIN f) \cup {p} |-> IF q = p THEN c ELSE f[q]]

\* a decodable image of the configured resolution
Decodable(c) ==
    c.kind = "img" /\ c.res = RES

VARIABLES
    fs,                \* dataset/{renders,ao,conditioning}: path -> content
    metadata,          \* dataset/metadata.jsonl
    meshes,            \* cloth_meshes/*.obj
    script,            \* the script started last
    pc,                \* where the running script is; "idle" between runs
    run,               \* scripts started so far
    exitcode,          \* "running", or how the last script ended: "0", "1", "killed"
    out,               \* what the current (or last) script printed
    NUM_SAMPLES,       \* generator: the sample count of this run
    i,                 \* generator: loop index
    metadata_records,  \* generator: records to write
    render_np,         \* generator: the rendered buffer of frame i
    render_files,      \* sketch stage: sorted(glob(render_*.png))
    pos,               \* sketch stage: position in render_files
    processed,         \* sketch stage: counter
    skipped,           \* sketch stage: counter
    doneN,             \* largest NUM_SAMPLES of a generator run that completed
    killed             \* the generator run stopped last: its number, where it was stopped

vars ==
    <<fs, metadata, meshes, script, pc, run, exitcode, out, NUM_SAMPLES, i,
      metadata_records, render_np, render_files, pos, processed, skipped, doneN, killed>>

genVars ==
    <<NUM_SAMPLES, i, metadata_records, render_np>>

sketchVars ==
    <<render_files, pos, processed, skipped>>

Msg(m, frame, n) ==
    [msg |-> m, frame |-> frame, n |-> n]

NoRender ==
    [beauty |-> <<>>, ao |-> <<>>, has_aov |-> TRUE, material |-> "none"]

\* no generator run has been stopped
NoKill ==
    [run |-> 0, pc |-> "none"]

AbsentMeta ==
    [kind |-> "absent", lines |-> <<>>, by |-> 0]

\* the record appended for a generated frame
Record(frame_str, material_desc) ==
    [file_name |-> RenderPath(frame_str),
     conditioning_image |-> CondPath(frame_str),
     ao_image |-> AoPath(frame_str),
     text |-> material_desc]

Materials ==
    {"shiny silk", "matte wool"}

PriorMeta ==
    [kind |-> "file", lines |-> <<Record(FrameStr(0), "matte wool")>>, by |-> 0]

\* Buffers mi.render returns, as the two images written from them: one without
\* an edge at pixel 1 over a bright AO level, rendered without AOV channels,
\* and one with an edge there over a black AO level; the next pixel is the
\* opposite in each.
RenderSamples ==
    {[beauty |-> [p \in 1..NPix |-> IF p % 2 = 1 THEN e ELSE WHITE - e],
      ao |-> [p \in 1..NPix |-> IF (p % 2 = 1) = (e = 0) THEN 252 ELSE 0],
      has_aov |-> (e = WHITE),
      material |-> IF e = 0 THEN "matte wool" ELSE "shiny silk"] :
        e \in {0, WHITE}}

\* What the dataset directory may hold before the first run: nothing, an
\* undecodable file, or an image left by an earlier session.
PriorRenders ==
    {Absent, Junk, Img([p \in 1..NPix |-> WHITE], 0)}

PriorAos ==
    {Absent, Junk, Img([p \in 1..NPix |-> 252], 0)}

PriorConds ==
    {Absent}

Init ==
    /\ fs \in [Paths -> PriorRenders \cup PriorAos \cup PriorConds]
    /\ \A j \in Indices :
        /\ fs[RenderPath(FrameStr(j))] \in PriorRenders
        /\ fs[AoPath(FrameStr(j))] \in PriorAos
        /\ fs[CondPath(FrameStr(j))] \in PriorConds
    /\ metadata \in {AbsentMeta, PriorMeta}
    /\ meshes \in {{}, {"cloth_a"}}
    /\ script = "none"
    /\ pc = "idle"
    /\ run = 0
    /\ exitcode = "none"
    /\ out = {}
    /\ NUM_SAMPLES = 0
    /\ i = 0
    /\ metadata_records = <<>>
    /\ render_np = NoRender
    /\ render_files = <<>>
    /\ pos = 0
    /\ processed = 0
    /\ skipped = 0
    /\ doneN = 0
    /\ killed = NoKill

\* ------------------------------------------------------------- generator
\* Checkpoint with the frame number not zero-padded in the tested paths
Checkpoint_Unpadded(f, j) ==
    Exists(f, RenderPath(Digits(j))) /\ Exists(f, AoPath(Digits(j)))

\* Checkpoint testing only for the render file
Checkpoint_RenderOnly(f, j) ==
    Exists(f, RenderPath(FrameStr(j)))

\* the checkpoint test: both outputs of frame j already exist
Checkpoint(f, j) ==
    Exists(f, RenderPath(FrameStr(j))) /\ Exists(f, AoPath(FrameStr(j)))

\* the count the checkpoint banner prints
Existing(f, n) ==
    Cardinality({j \in 0..(n - 1) : Checkpoint(f, j)})

\* MetadataWrite with the file opened in append mode
MetadataWrite_Append(old, records) ==
    old \o records

\* open(metadata_path, 'w'): the file's lines after the write
MetadataWrite(old, records) ==
    records

\* NoMeshes testing for None, which glob never returns
NoMeshes_IsNone(mesh_files) ==
    FALSE

\* if not mesh_files
NoMeshes(mesh_files) ==
    mesh_files = {}

\* makedirs, mesh discovery, the fatal exit, the checkpoint banner
GenStart ==
    /\ pc = "idle"
    /\ run < MaxRuns
    /\ run' = run + 1
    /\ script' = "generate_dataset"
    /\ IF NoMeshes(meshes)
       THEN /\ out' = {Msg("ERROR no .obj files", <<>>, 0)}
            /\ exitcode' = "1"
            /\ pc' = "idle"
            /\ UNCHANGED <<fs, metadata, meshes, genVars, sketchVars, doneN, killed>>
       ELSE \E n \in 1..MaxSamples :
            /\ NUM_SAMPLES' = n
            /\ metadata_records' = <<>>
            /\ i' = 0
            /\ out' = {Msg("Checkpoint", <<>>, Existing(fs, n))}
            /\ exitcode' = "running"
            /\ pc' = "gen_loop"
            /\ UNCHANGED <<fs, metadata, meshes, render_np, sketchVars, doneN, killed>>

\* the checkpoint: frame i is skipped
GenSkip ==
    /\ pc = "gen_loop"
    /\ i < NUM_SAMPLES
    /\ Checkpoint(fs, i)
    /\ out' = out \cup {Msg("Skipping", FrameStr(i), 0)}
    /\ i' = i + 1
    /\ UNCHANGED <<fs, metadata, meshes, script, pc, run, exitcode, NUM_SAMPLES,
                   metadata_records, render_np, sketchVars, doneN, killed>>

\* randomise, build the scene, render: the buffer of frame i
GenRender ==
    /\ pc = "gen_loop"
    /\ i < NUM_SAMPLES
    /\ ~Checkpoint(fs, i)
    /\ \E current_mesh_path \in meshes, r \in RenderSamples :
        render_np' = r
    /\ pc' = "gen_rendered"
    /\ UNCHANGED <<fs, metadata, meshes, script, run, exitcode, out, NUM_SAMPLES, i,
                   metadata_records, sketchVars, doneN, killed>>

\* cv2.imwrite(render_path, ...)
GenWriteBeauty ==
    /\ pc = "gen_rendered"
    /\ fs' = Write(fs, RenderPath(FrameStr(i)), Img(render_np.beauty, run))
    /\ pc' = "gen_beauty_written"
    /\ UNCHANGED <<metadata, meshes, script, run, exitcode, out, genVars, sketchVars, doneN, killed>>

\* GenWriteAO with the AO image never written
GenWriteAO_NoImwrite ==
    /\ pc = "gen_beauty_written"
    /\ out' = IF render_np.has_aov THEN out
              ELSE out \cup {Msg("WARNING AOV channels not found", FrameStr(i), 0)}
    /\ metadata_records' =
           Append(metadata_records, Record(FrameStr(i), render_np.material))
    /\ i' = i + 1
    /\ render_np' = NoRender
    /\ pc' = "gen_loop"
    /\ UNCHANGED <<fs, metadata, meshes, script, run, exitcode, NUM_SAMPLES,
                   sketchVars, doneN, killed>>

\* the AO pass, cv2.imwrite(ao_path, ...), the metadata record
GenWriteAO ==
    /\ pc = "gen_beauty_written"
    /\ out' = IF render_np.has_aov THEN out
              ELSE out \cup {Msg("WARNING AOV channels not found", FrameStr(i), 0)}
    /\ fs' = Write(fs, AoPath(FrameStr(i)), Img(render_np.ao, run))
    /\ metadata_records' =
           Append(metadata_records, Record(FrameStr(i), render_np.material))
    /\ i' = i + 1
    /\ render_np' = NoRender
    /\ pc' = "gen_loop"
    /\ UNCHANGED <<metadata, meshes, script, run, exitcode, NUM_SAMPLES, sketchVars, doneN, killed>>

\* the loop is over: write metadata.jsonl, print Done, exit 0
GenFinish ==
    /\ pc = "gen_loop"
    /\ i >= NUM_SAMPLES
    /\ metadata' = [kind |-> "file",
                    lines |-> MetadataWrite(metadata.lines, metadata_records),
                    by |-> run]
    /\ out' = out \cup {Msg("Done", <<>>, NUM_SAMPLES)}
    /\ exitcode' = "0"
    /\ pc' = "idle"
    /\ doneN' = IF NUM_SAMPLES > doneN THEN NUM_SAMPLES ELSE doneN
    /\ UNCHANGED <<fs, meshes, script, run, genVars, sketchVars, killed>>

\* the generator is stopped from outside between two of its steps
Interrupt ==
    /\ pc \in {"gen_loop", "gen_rendered", "gen_beauty_written"}
    /\ pc' = "idle"
    /\ exitcode' = "killed"
    /\ render_np' = NoRender
    /\ killed' = [run |-> run, pc |-> pc]
    /\ UNCHANGED <<fs, metadata, meshes, script, run, out, NUM_SAMPLES, i,
                   metadata_records, sketchVars, doneN>>

\* ------------------------------------------------------------- sketch stage
\* the order of characters that sorted() compares digits by
AtomRank(a) ==
    IF \E k \in 1..Len(DigitChars) : DigitChars[k] = a
    THEN CHOOSE k \in 1..Len(DigitChars) : DigitChars[k] = a
    ELSE 0

RECURSIVE LexLess(_, _)
\* p < q as Python compares the two strings
LexLess(p, q) ==
    IF p = <<>> THEN q # <<>>
    ELSE IF q = <<>> THEN FALSE
    ELSE IF Head(p) = Head(q) THEN LexLess(Tail(p), Tail(q))
    ELSE AtomRank(Head(p)) < AtomRank(Head(q))

RECURSIVE Sorted(_)
\* sorted(S)
Sorted(S) ==
    IF S = {} THEN <<>>
    ELSE LET m == CHOOSE x \in S : \A y \in S \ {x} : LexLess(x, y)
         IN  <<m>> \o Sorted(S \ {m})

\* glob.glob(os.path.join(RENDERS_DIR, "render_*.png"))
GlobRenders(f) ==
    {p \in DOMAIN f : /\ Exists(f, p)
                      /\ Len(p) >= 3
                      /\ p[1] = "renders/"
                      /\ p[2] = "render_"
                      /\ p[Len(p)] = ".png"}

\* cv2.Canny(cv2.GaussianBlur(cv2.cvtColor(beauty)))
CannyEdges(beauty) ==
    beauty.px

\* cv2.bitwise_not on one 8-bit pixel
BitwiseNot(v) ==
    WHITE - v

\* (ao_inverted.astype(np.float32) * AO_WEIGHT).astype(np.uint8) on one pixel
AoShadingPixel(v) ==
    ((BitwiseNot(v) * AO_WEIGHT_NUM) \div AO_WEIGHT_DEN) % 256

\* the shading layer of a loaded AO image
AoShading(ao_gray) ==
    [p \in DOMAIN ao_gray.px |-> AoShadingPixel(ao_gray.px[p])]

\* ZerosLike filling with white
ZerosLike_White(a) ==
    [p \in DOMAIN a |-> WHITE]

\* np.zeros_like(canny_edges)
ZerosLike(a) ==
    [p \in DOMAIN a |-> 0]

\* CvMax taking the darker pixel (cv2.min)
CvMax_Min(a, b) ==
    [p \in DOMAIN a |-> IF a[p] <= b[p] THEN a[p] ELSE b[p]]

\* cv2.max: the per-pixel maximum
CvMax(a, b) ==
    [p \in DOMAIN a |-> IF a[p] >= b[p] THEN a[p] ELSE b[p]]

\* render discovery and the fatal exit
SketchStart ==
    /\ pc = "idle"
    /\ run < MaxRuns
    /\ run' = run + 1
    /\ script' = "generate_sketches"
    /\ render_files' = Sorted(GlobRenders(fs))
    /\ IF render_files' = <<>>
       THEN /\ out' = {Msg("No renders found", <<>>, 0)}
            /\ exitcode' = "1"
            /\ pc' = "idle"
            /\ UNCHANGED <<pos, processed, skipped>>
       ELSE /\ out' = {Msg("Found", <<>>, Len(render_files'))}
            /\ exitcode' = "running"
            /\ processed' = 0
            /\ skipped' = 0
            /\ pos' = 1
            /\ pc' = "sketch_loop"
    /\ UNCHANGED <<fs, metadata, meshes, genVars, doneN, killed>>

\* SketchSkip leaving the loop (break) where the code goes on (continue)
SketchSkip_Break(frame_str) ==
    /\ out' = out \cup {Msg("ERROR could not load beauty render", frame_str, 0)}
    /\ skipped' = skipped + 1
    /\ pos' = Len(render_files) + 1
    /\ UNCHANGED <<fs, processed>>

\* SketchSkip with the counter left alone
SketchSkip_NotCounted(frame_str) ==
    /\ out' = out \cup {Msg("ERROR could not load beauty render", frame_str, 0)}
    /\ pos' = pos + 1
    /\ UNCHANGED <<fs, processed, skipped>>

\* the beauty render did not load: count the frame as skipped and continue
SketchSkip(frame_str) ==
    /\ out' = out \cup {Msg("ERROR could not load beauty render", frame_str, 0)}
    /\ skipped' = skipped + 1
    /\ pos' = pos + 1
    /\ UNCHANGED <<fs, processed>>

\* steps 1 to 4: edge map, shading layer, blend, save
SketchProcess(render_path, ao_path, out_path, frame_str) ==
    LET canny_edges   == CannyEdges(fs[render_path])
        ao_shading    == IF Loads(fs, ao_path)
                         THEN AoShading(fs[ao_path])
                         ELSE ZerosLike(canny_edges)
        shaded_sketch == CvMax(canny_edges, ao_shading)
    IN  /\ out' = out
                \cup (IF Loads(fs, ao_path) THEN {}
                      ELSE {Msg("WARNING could not load AO map", frame_str, 0)})
                \cup {Msg("ok", frame_str, 0)}
        /\ fs' = Write(fs, out_path, Img(shaded_sketch, run))
        /\ processed' = processed + 1
        /\ pos' = pos + 1
        /\ UNCHANGED skipped

\* one iteration of the processing loop
SketchFrame ==
    /\ pc = "sketch_loop"
    /\ pos <= Len(render_files)
    /\ LET render_path == render_files[pos]
           frame_str   == SketchFrameStr(render_path)
           ao_path     == AoPath(frame_str)
           out_path    == CondPath(frame_str)
       IN  IF ~Loads(fs, render_path)
           THEN SketchSkip(frame_str)
           ELSE SketchProcess(render_path, ao_path, out_path, frame_str)
    /\ UNCHANGED <<metadata, meshes, script, pc, run, exitcode, render_files, genVars, doneN, killed>>

\* the summary, exit 0
SketchFinish ==
    /\ pc = "sketch_loop"
    /\ pos > Len(render_files)
    /\ out' = out \cup {Msg("Done", <<>>, processed)}
                  \cup (IF skipped # 0 THEN {Msg("skipped", <<>>, skipped)} ELSE {})
    /\ exitcode' = "0"
    /\ pc' = "idle"
    /\ UNCHANGED <<fs, metadata, meshes, script, run, genVars, sketchVars, doneN, killed>>

Next ==
    \/ GenStart
    \/ GenSkip
    \/ GenRender
    \/ GenWriteBeauty
    \/ GenWriteAO
    \/ GenFinish
    \/ Interrupt
    \/ SketchStart
    \/ SketchFrame
    \/ SketchFinish

Spec ==
    Init /\ [][Next]_vars

\* ------------------------------------------------------------- properties
\* the generator ran to completion and nothing was started since
GenCompleted ==
    script = "generate_dataset" /\ pc = "idle" /\ exitcode = "0"

\* the generator's current (or last) run skipped frame j at the checkpoint
SkippedByGen(j) ==
    Msg("Skipping", FrameStr(j), 0) \in out

RenderOf(j) ==
    fs[RenderPath(FrameStr(j))]

AoOf(j) ==
    fs[AoPath(FrameStr(j))]

\* C1 as stated: after a generator run that ran to completion, from any prior
\* contents of the dataset directory, render_j.png and ao_j.png exist and are
\* decodable images of the configured resolution for every j in [0, NUM_SAMPLES).
C1_AllDecodableAfterRun ==
    GenCompleted =>
        \A j \in 0..(NUM_SAMPLES - 1) : Decodable(RenderOf(j)) /\ Decodable(AoOf(j))

\* C1 amended: after a generator run that ran to completion, render_j.png and
\* ao_j.png exist for every j in [0, NUM_SAMPLES), and they are decodable images
\* of the configured resolution for every j the run did not skip at the checkpoint.
C1_ExistAndGeneratedDecodable ==
    GenCompleted =>
        \A j \in 0..(NUM_SAMPLES - 1) :
            /\ RenderOf(j).kind # "absent"
            /\ AoOf(j).kind # "absent"
            /\ ~SkippedByGen(j) => Decodable(RenderOf(j)) /\ Decodable(AoOf(j))

\* a completed run that skipped an undecodable pair and generated another frame
C1_Witness ==
    /\ GenCompleted
    /\ NUM_SAMPLES = 2
    /\ SkippedByGen(0) /\ RenderOf(0).kind = "junk"
    /\ ~SkippedByGen(1) /\ RenderOf(1).by = run /\ AoOf(1).by = run

\* C2: a generator run whose sample count is at most that of a run that
\* completed before changes no file of the dataset images, and every index whose
\* render and ao files both exist is passed over by the skip step alone: nothing
\* is rendered, written or recorded for it.
C2_RerunLeavesFrames ==
    /\ [][(script = "generate_dataset" /\ pc # "idle" /\ NUM_SAMPLES <= doneN)
            => fs' = fs]_vars
    /\ [][(/\ pc = "gen_loop" /\ i < NUM_SAMPLES /\ pc' # "idle"
           /\ RenderOf(i).kind # "absent" /\ AoOf(i).kind # "absent")
            => /\ fs' = fs
               /\ pc' = "gen_loop"
               /\ i' = i + 1
               /\ render_np' = render_np
               /\ metadata_records' = metadata_records
               /\ Msg("Skipping", FrameStr(i), 0) \in out']_vars

\* a second run, no larger than the first, has skipped every frame the first wrote
C2_Witness ==
    /\ script = "generate_dataset" /\ pc = "gen_loop"
    /\ doneN = 2 /\ NUM_SAMPLES = 2 /\ i = 2 /\ run = 2
    /\ \A j \in 0..1 : SkippedByGen(j) /\ RenderOf(j).by = 1 /\ AoOf(j).by = 1

\* the frames of [0, n) the generator's run did not skip
Generated(n) ==
    {j \in 0..(n - 1) : ~SkippedByGen(j)}

MetadataKeys ==
    {"file_name", "conditioning_image", "ao_image", "text"}

\* lines holds one record, with the four keys, per frame of G, and nothing else
OneLinePerFrame(lines, G) ==
    /\ Len(lines) = Cardinality(G)
    /\ \A k \in 1..Len(lines) : DOMAIN lines[k] = MetadataKeys
    /\ \A j \in G :
        Cardinality({k \in 1..Len(lines) :
                        lines[k].file_name = RenderPath(FrameStr(j))}) = 1

\* C3: while the generator runs, metadata_records holds one record per frame
\* generated so far; after a run that completed, metadata.jsonl holds exactly
\* those records: one line per frame this run generated, none for a skipped
\* frame, each with the four keys.
C3_MetadataOneLinePerGenerated ==
    /\ (script = "generate_dataset" /\ exitcode \in {"running", "0"})
        => OneLinePerFrame(metadata_records, Generated(i))
    /\ GenCompleted
        => /\ metadata.kind = "file"
           /\ metadata.lines = metadata_records
           /\ OneLinePerFrame(metadata.lines, Generated(NUM_SAMPLES))

\* a completed run over a directory that held metadata, one frame skipped, one generated
C3_Witness ==
    /\ GenCompleted
    /\ NUM_SAMPLES = 2
    /\ Cardinality(Generated(2)) = 1
    /\ Len(metadata.lines) = 1
    /\ metadata.by = run

\* C4 as stated: no dataset file that exists is ever overwritten or changed.
C4_WriteOnce ==
    [][/\ \A p \in DOMAIN fs : fs[p].kind # "absent" => fs'[p] = fs[p]
       /\ metadata.kind # "absent" => metadata' = metadata]_vars

\* C4 amended: a render or ao file is overwritten only by the frame iteration
\* that found its pair incomplete at the checkpoint; outside that iteration, the
\* two files of a pair that both exist are never overwritten or changed.
C4_CompletePairsWriteOnce ==
    /\ [][\A j \in Indices :
            (/\ RenderOf(j).kind # "absent" /\ AoOf(j).kind # "absent"
             /\ ~(pc \in {"gen_rendered", "gen_beauty_written"} /\ i = j))
                => /\ fs'[RenderPath(FrameStr(j))] = RenderOf(j)
                   /\ fs'[AoPath(FrameStr(j))] = AoOf(j)]_vars
    /\ [][(pc = "gen_loop" /\ pc' = "gen_rendered")
            => (RenderOf(i).kind = "absent" \/ AoOf(i).kind = "absent")]_vars

\* a resumed run has passed a pair an earlier run wrote and is rendering the next frame
C4_Witness ==
    /\ script = "generate_dataset" /\ run = 2 /\ pc = "gen_rendered" /\ i = 1
    /\ SkippedByGen(0) /\ RenderOf(0).by = 1 /\ AoOf(0).by = 1

\* ---- the sketch stage
CondOf(j) ==
    fs[CondPath(FrameStr(j))]

\* the sketch stage is at the top of the iteration for render_j.png
AtSketchOf(j) ==
    /\ pc = "sketch_loop"
    /\ pos <= Len(render_files)
    /\ render_files[pos] = RenderPath(FrameStr(j))

\* AO_WEIGHT (6/10) times the inverted pixel, truncated
WeightedInverse(v) ==
    (6 * (255 - v)) \div 10

\* C5: the iteration for a render_j.png that loads and whose ao_j.png loads
\* writes conditioning_j.png, each pixel the larger of the Canny edge pixel and
\* AO_WEIGHT times the inverted ao pixel, truncated; so a pixel the edge map
\* sets to 255 is 255 in the output.
C5_ConditioningIsMaxOfLayers ==
    [][\A j \in Indices :
        (AtSketchOf(j) /\ RenderOf(j).kind = "img" /\ AoOf(j).kind = "img")
            => /\ CondOf(j)'.kind = "img"
               /\ CondOf(j)'.by = run
               /\ \A p \in 1..NPix :
                    LET edge  == RenderOf(j).px[p]
                        shade == WeightedInverse(AoOf(j).px[p])
                    IN  /\ CondOf(j)'.px[p] = IF edge >= shade THEN edge ELSE shade
                        /\ edge = 255 => CondOf(j)'.px[p] = 255]_vars

\* a sketch written from a render without an edge at pixel 1 and an AO level of
\* 252 there: the pixel is 1, the truncation of 0.6 * 3
C5_Witness ==
    /\ script = "generate_sketches"
    /\ \E j \in Indices :
        /\ CondOf(j).kind = "img" /\ CondOf(j).by = run
        /\ RenderOf(j).kind = "img" /\ RenderOf(j).px[1] = 0
        /\ AoOf(j).kind = "img" /\ AoOf(j).px[1] = 252
        /\ CondOf(j).px[1] = 1

\* C6: the iteration for a render_j.png that loads while ao_j.png is absent or
\* does not load still writes conditioning_j.png, equal to the Canny edge map
\* alone, and prints a warning for that frame.
C6_EdgeOnlyFallback ==
    [][\A j \in Indices :
        (AtSketchOf(j) /\ RenderOf(j).kind = "img" /\ AoOf(j).kind # "img")
            => /\ CondOf(j)'.kind = "img"
               /\ CondOf(j)'.by = run
               /\ CondOf(j)'.px = RenderOf(j).px
               /\ Msg("WARNING could not load AO map", FrameStr(j), 0) \in out']_vars

\* an edge-only sketch, with an edge, has been written for a frame whose AO map is junk
C6_Witness ==
    /\ script = "generate_sketches"
    /\ \E j \in Indices :
        /\ AoOf(j).kind = "junk"
        /\ RenderOf(j).kind = "img" /\ RenderOf(j).px[1] = 255
        /\ CondOf(j).by = run /\ CondOf(j).px[1] = 255
        /\ Msg("WARNING could not load AO map", FrameStr(j), 0) \in out

\* the sketch stage's current (or last) run handled position k of its batch
Handled(k) ==
    \E m \in out :
        /\ m.msg \in {"ok", "ERROR could not load beauty render"}
        /\ RenderPath(m.frame) = render_files[k]

\* C7: the iteration for a render_j.png that does not load writes nothing,
\* adds exactly one to skipped and goes on to the next file of the batch; the
\* run handles every file of the batch and ends by itself with exit code 0.
C7_SkipAndContinue ==
    /\ [][\A j \in Indices :
            (AtSketchOf(j) /\ RenderOf(j).kind # "img")
                => /\ fs' = fs
                   /\ skipped' = skipped + 1
                   /\ processed' = processed
                   /\ pos' = pos + 1
                   /\ pc' = "sketch_loop"
                   /\ render_files' = render_files]_vars
    /\ [](script = "generate_sketches" /\ pc = "sketch_loop"
            => \A k \in 1..(pos - 1) : Handled(k))
    /\ [][(pc = "sketch_loop" /\ pc' # "sketch_loop")
            => /\ exitcode' = "0"
               /\ \A k \in 1..Len(render_files) : Handled(k)]_vars

\* a run that skipped render_0000.png, then wrote the sketch of render_0001.png
C7_Witness ==
    /\ script = "generate_sketches" /\ pc = "idle" /\ exitcode = "0"
    /\ RenderOf(0).kind = "junk" /\ CondOf(0).kind = "absent"
    /\ skipped = 1 /\ processed = 1
    /\ CondOf(1).by = run

\* C8: a script started without its required inputs (the generator without a
\* mesh, the sketch stage without a render file) prints an error and exits with
\* code 1 in its first step, with no file written; started with them it enters
\* its loop, and a script that ends by itself after that exits with code 0.
C8_ExitCodes ==
    /\ [][(pc = "idle" /\ run' # run)
            => LET missing == IF script' = "generate_dataset"
                              THEN meshes = {}
                              ELSE \A j \in Indices : RenderOf(j).kind = "absent"
               IN  IF missing
                   THEN /\ exitcode' = "1"
                        /\ pc' = "idle"
                        /\ fs' = fs
                        /\ metadata' = metadata
                        /\ \E m \in out' : m.msg \in {"ERROR no .obj files", "No renders found"}
                   ELSE /\ exitcode' = "running"
                        /\ pc' # "idle"]_vars
    /\ [][(pc # "idle" /\ pc' = "idle" /\ exitcode' # "killed")
            => exitcode' = "0"]_vars

\* with neither meshes nor renders, the second script started has exited with
\* code 1 as well
C8_Witness ==
    /\ script = "generate_sketches" /\ exitcode = "1" /\ pc = "idle"
    /\ meshes = {} /\ run = 2
    /\ \A j \in Indices : RenderOf(j).kind = "absent"
    /\ \E m \in out : m.msg = "No renders found"

\* frames the sketch stage's run printed message text for
FramesWith(text) ==
    {m.frame : m \in {x \in out : x.msg = text}}

SketchActive ==
    script = "generate_sketches" /\ exitcode \in {"running", "0"}

\* C9 as stated: the count of skipped frames covers every frame whose
\* companion file is missing, the skipped ones and the edge-only ones alike.
C9_CountCoversDegraded ==
    SketchActive =>
        skipped = Cardinality(FramesWith("ERROR could not load beauty render")
                              \cup FramesWith("WARNING could not load AO map"))

\* C9 amended: skipped counts exactly the frames whose render did not load; a
\* frame that fell back to the edge-only output is counted in processed; the
\* summary prints processed, and skipped when it is not zero.
C9_CountCoversSkippedOnly ==
    /\ SketchActive =>
        /\ skipped = Cardinality(FramesWith("ERROR could not load beauty render"))
        /\ processed = Cardinality(FramesWith("ok"))
        /\ FramesWith("WARNING could not load AO map") \subseteq FramesWith("ok")
    /\ (SketchActive /\ pc = "idle" /\ exitcode = "0") =>
        /\ Msg("Done", <<>>, processed) \in out
        /\ skipped # 0 <=> Msg("skipped", <<>>, skipped) \in out

\* a finished run with one frame skipped and one edge-only frame
C9_Witness ==
    /\ SketchActive /\ pc = "idle" /\ exitcode = "0"
    /\ skipped = 1 /\ processed = 1
    /\ FramesWith("WARNING could not load AO map") # {}

\* ---- frame indices
DecimalDigits ==
    {"0", "1", "2", "3", "4", "5", "6", "7", "8", "9"}

\* X is a string of exactly four decimal digits
IsFrameIndex(X) ==
    Len(X) = 4 /\ \A k \in 1..Len(X) : X[k] \in DecimalDigits

RECURSIVE NumberOf(_)
\* the number a string of decimal digits writes
NumberOf(X) ==
    IF X = <<>> THEN 0
    ELSE 10 * NumberOf(SubSeq(X, 1, Len(X) - 1))
            + (CHOOSE d \in 0..9 : DigitChars[d + 1] = X[Len(X)])

\* what stands between the two-atom prefix and the extension of a path
IndexPart(path) ==
    SubSeq(path, 3, Len(path) - 1)

\* the paths whose content differs after the step
ChangedPaths ==
    {q \in DOMAIN fs' : q \notin DOMAIN fs \/ fs'[q] # fs[q]}

\* loop indices of a full run where the number of digits changes, and its last
SampleIndices ==
    {0, 9, 10, 99, 100, FULL_RUN - 1}

\* the frame string of n is n in four digits, and the sketch stage recovers it
\* from the path of render n
FrameStringsRoundTrip ==
    \A n \in SampleIndices \cup Indices :
        /\ IsFrameIndex(FrameStr(n))
        /\ NumberOf(FrameStr(n)) = n
        /\ SketchFrameStr(<<"renders/", "render_">> \o FrameStr(n) \o <<".png">>)
             = FrameStr(n)

\* C10: (a) every record the generator appended names render_X, conditioning_X
\* and ao_X with one four-digit X, no two records of a run share X, and the run
\* wrote render_X.png and ao_X.png; (b) a write of the generator goes to
\* render_X.png or ao_X.png where X is the loop index in four digits; (c) the
\* sketch stage's iteration for render_X.png changes no file but
\* conditioning_X.png, writes it when the render loads, and warns exactly when
\* ao_X.png does not load; (d) up to the last index of a full run the frame
\* string is the index in four digits, and the sketch stage recovers it from
\* the render's path (a statement about the functions alone, evaluated once,
\* before the first run).
C10_SameIndexAcrossArtifacts ==
    /\ [](run = 0 => FrameStringsRoundTrip)
    /\ []((script = "generate_dataset" /\ exitcode \in {"running", "0"}) =>
            /\ \A k \in 1..Len(metadata_records) :
                LET rec == metadata_records[k]
                    X   == IndexPart(rec.file_name)
                IN  /\ IsFrameIndex(X)
                    /\ rec.file_name = <<"renders/", "render_">> \o X \o <<".png">>
                    /\ rec.conditioning_image
                         = <<"conditioning/", "conditioning_">> \o X \o <<".png">>
                    /\ rec.ao_image = <<"ao/", "ao_">> \o X \o <<".png">>
                    /\ fs[rec.file_name].by = run
                    /\ fs[rec.ao_image].by = run
            /\ \A k1, k2 \in 1..Len(metadata_records) :
                k1 # k2 => metadata_records[k1].file_name # metadata_records[k2].file_name)
    /\ [][(script = "generate_dataset" /\ pc # "idle" /\ fs' # fs) =>
            \E X \in {IndexPart(q) : q \in ChangedPaths} :
                /\ IsFrameIndex(X)
                /\ NumberOf(X) = i
                /\ \/ ChangedPaths = {<<"renders/", "render_">> \o X \o <<".png">>}
                   \/ ChangedPaths = {<<"ao/", "ao_">> \o X \o <<".png">>}]_vars
    /\ [][(pc = "sketch_loop" /\ pos <= Len(render_files)) =>
            LET X == IndexPart(render_files[pos])
                render_X == <<"renders/", "render_">> \o X \o <<".png">>
                ao_X     == <<"ao/", "ao_">> \o X \o <<".png">>
                cond_X   == <<"conditioning/", "conditioning_">> \o X \o <<".png">>
            IN  /\ IsFrameIndex(X)
                /\ render_files[pos] = render_X
                /\ ChangedPaths \subseteq {cond_X}
                /\ fs[render_X].kind = "img" =>
                    /\ fs'[cond_X].by = run
                    /\ (\E m \in out' : m.msg = "WARNING could not load AO map" /\ m.frame = X)
                         <=> fs[ao_X].kind # "img"]_vars

\* the sketch stage has written conditioning_0001.png from the render_0001.png
\* and ao_0001.png that the generator wrote and recorded in metadata.jsonl
C10_Witness ==
    /\ script = "generate_sketches" /\ run = 2
    /\ CondOf(1).by = 2 /\ RenderOf(1).by = 1 /\ AoOf(1).by = 1
    /\ metadata.by = 1
    /\ \E k \in 1..Len(metadata.lines) :
        /\ metadata.lines[k].file_name
             = <<"renders/", "render_", "0", "0", "0", "1", ".png">>
        /\ metadata.lines[k].conditioning_image
             = <<"conditioning/", "conditioning_", "0", "0", "0", "1", ".png">>

\* ---- resuming an interrupted generator run
\* the current (or last) script is a generator run started right after a
\* generator run was stopped
Resumed ==
    script = "generate_dataset" /\ killed.run >= 1 /\ killed.run = run - 1

\* the re-run ran to completion
ResumedCompleted ==
    Resumed /\ GenCompleted

\* both files of frame j exist and neither was written by the current run
CompleteBefore(j) ==
    /\ RenderOf(j).kind # "absent" /\ RenderOf(j).by < run
    /\ AoOf(j).kind # "absent" /\ AoOf(j).by < run

\* the current run is in the iteration of frame j, past the checkpoint
Rendering(j) ==
    pc \in {"gen_rendered", "gen_beauty_written"} /\ i = j

\* a pair complete before the re-run is neither changed nor rendered again
NotRerendered ==
    \A j \in Indices :
        CompleteBefore(j) => CompleteBefore(j)' /\ ~Rendering(j)'

\* no ao file is there without its render file, and the two files of every
\* pair come from one frame iteration (or were both there before the first run)
PairsWhole ==
    \A j \in Indices :
        AoOf(j).kind # "absent"
            => RenderOf(j).kind # "absent" /\ RenderOf(j).by = AoOf(j).by

====
